---- MODULE Spec2Model ----
(***************************************************************************)
(* A model of the VidSentry JavaScript SDK client (src/src/errors.ts):     *)
(* the error taxonomy, the constructor, the Transport (request and         *)
(* handleErrorResponse), getJobStatus and the completion poller            *)
(* (waitForCompletion), over a discrete clock.                             *)
(*                                                                         *)
(* Conventions.  A JavaScript string that the code inspects (the API key,  *)
(* the Retry-After header) is a sequence of one-character strings.  A      *)
(* JavaScript number that may be NaN is a record [nan, val].  Money is     *)
(* counted in hundredths.  A message built from a template is a record     *)
(* [fmt, id, n] holding the template and the values it interpolates.       *)
(* Durations and instants are in milliseconds.                             *)
(***************************************************************************)
EXTENDS Integers, Sequences, FiniteSets, TLC

VARIABLES
    now,      \* the wall clock, Date.now()
    client,   \* the constructed client's configuration, or NoClient
    ctor,     \* how the last `new VidSentry(config)` ended
    wire,     \* the credentials of every network call issued so far
    remote,   \* the remote job row: "absent" or its status
    termAt,   \* the instant the remote job became terminal, or -1
    r,        \* the Transport invocation (request) in progress or last ended
    w,        \* the waitForCompletion call
    ops,      \* the domain operations called side by side, one per caller
    ctl,      \* the AbortControllers created so far: TRUE once aborted
    tmr,      \* the timers created so far by setTimeout in request()
    netlog    \* the fetch() calls issued by those operations, in order

vars == <<now, client, ctor, wire, remote, termAt, r, w, ops, ctl, tmr, netlog>>

\* The state of the callers of the domain operations.
opsVars == <<ops, ctl, tmr, netlog>>

(***************************************************************************)
(* Bounds of the model.                                                    *)
(***************************************************************************)
MaxTime == 5        \* the clock stops here
MaxStart == 1       \* latest instant at which waitForCompletion is called
MaxWaitIn == 3      \* largest maxWait a caller passes
MaxPollIn == 2      \* largest pollInterval a caller passes
MaxTimeoutIn == 1   \* largest config.timeout a caller passes
MaxHdrLen == 2      \* longest Retry-After header value
MaxOpsTime == 2     \* the clock of the side-by-side calls stops here

(***************************************************************************)
(* Program constants.                                                      *)
(***************************************************************************)
DEFAULT_TIMEOUT == 30000
DEFAULT_MAX_WAIT == 300000
DEFAULT_POLL_INTERVAL == 5000
DefaultRetryAfter == <<"6", "0">>   \* the string '60'
DEFAULT_BASE_URL == "https://cyzacqndakvnxhohmbgx.supabase.co"

Undefined == [undefined |-> TRUE]

(***************************************************************************)
(* JavaScript helpers.                                                     *)
(***************************************************************************)
\* String.prototype.startsWith on character sequences.
startsWith(s, prefix) ==
    /\ Len(s) >= Len(prefix)
    /\ \A i \in 1..Len(prefix) : s[i] = prefix[i]

\* A value that may be missing (undefined, or a header that is absent) is
\* None or Some(v).
None == <<>>
Some(v) == <<v>>

\* Faulty variant: `x ?? d`, where only undefined is replaced.
OrNumNullish(x, d) == IF x = None THEN d ELSE x[1]

\* `x || d` for an optional number x: undefined and 0 are falsy.
OrNum(x, d) == IF x = None THEN d ELSE IF x[1] = 0 THEN d ELSE x[1]

\* `s || d` for an optional string s: undefined and "" are falsy.
OrStr(s, d) == IF s = None THEN d ELSE IF s[1] = "" THEN d ELSE s[1]

\* `s || d` for an optional string s held as characters.
OrChars(s, d) == IF s = None THEN d ELSE IF s[1] = <<>> THEN d ELSE s[1]

\* `b || false` for an optional boolean b.
OrBool(b) == IF b = None THEN FALSE ELSE b[1]

Num(n) == [nan |-> FALSE, val |-> n]
NaN == [nan |-> TRUE, val |-> 0]

Digits == <<"0", "1", "2", "3", "4", "5", "6", "7", "8", "9">>
IsDigit(c) == \E d \in 1..10 : Digits[d] = c
DigitVal(c) == (CHOOSE d \in 1..10 : Digits[d] = c) - 1
IsSpace(c) == c = " "

\* The index of the first character of s at or after i that is not white
\* space (Len(s) + 1 when there is none).
RECURSIVE SkipSpace(_, _)
SkipSpace(s, i) ==
    IF i > Len(s) THEN i
    ELSE IF IsSpace(s[i]) THEN SkipSpace(s, i + 1) ELSE i

\* The value of the longest run of decimal digits of s starting at i, given
\* the value acc of the digits before i.
RECURSIVE DigitRun(_, _, _)
DigitRun(s, i, acc) ==
    IF i > Len(s) THEN acc
    ELSE IF IsDigit(s[i]) THEN DigitRun(s, i + 1, acc * 10 + DigitVal(s[i]))
    ELSE acc

\* parseInt(s, 10): leading white space is skipped, an optional sign is
\* read, then the longest run of digits; NaN when there is no digit there.
parseInt10(s) ==
    LET i == SkipSpace(s, 1)
        signed == i <= Len(s) /\ s[i] \in {"-", "+"}
        j == IF signed THEN i + 1 ELSE i
        mag == DigitRun(s, j, 0)
    IN  IF j > Len(s) \/ ~IsDigit(s[j]) THEN NaN
        ELSE IF signed /\ s[i] = "-" THEN Num(0 - mag) ELSE Num(mag)

(***************************************************************************)
(* The error taxonomy.                                                     *)
(***************************************************************************)
\* Messages and codes: a template with the values it interpolates.
Msg(fmt, id, n) == [fmt |-> fmt, id |-> id, n |-> n]
Text(s) == Msg(s, "", 0)
\* `HTTP_${status}`
HttpCode(status) == Msg("HTTP_%", "", status)

VidSentryError(message, code, details) ==
    [name |-> "VidSentryError", code |-> code, message |-> message,
     details |-> details, taxonomy |-> TRUE]

AuthenticationError(message) ==
    [name |-> "AuthenticationError", code |-> Text("AUTHENTICATION_ERROR"),
     message |-> message, details |-> Undefined, taxonomy |-> TRUE]

RateLimitError(message, retryAfter) ==
    [name |-> "RateLimitError", code |-> Text("RATE_LIMIT_ERROR"),
     message |-> message, details |-> [retryAfter |-> retryAfter],
     taxonomy |-> TRUE, retryAfter |-> retryAfter]

\* Faulty variant: the two amounts are stored the wrong way round.
InsufficientFundsErrorSwapped(required, available) ==
    [name |-> "InsufficientFundsError", code |-> Text("INSUFFICIENT_FUNDS"),
     message |-> [fmt |-> "Insufficient funds. Required: R%, Available: R%",
                  required |-> required, available |-> available],
     details |-> [required |-> available, available |-> required],
     taxonomy |-> TRUE, required |-> available, available |-> required]

InsufficientFundsError(required, available) ==
    [name |-> "InsufficientFundsError", code |-> Text("INSUFFICIENT_FUNDS"),
     message |-> [fmt |-> "Insufficient funds. Required: R%, Available: R%",
                  required |-> required, available |-> available],
     details |-> [required |-> required, available |-> available],
     taxonomy |-> TRUE, required |-> required, available |-> available]

NotFoundError(resource, id) ==
    [name |-> "NotFoundError", code |-> Text("NOT_FOUND"),
     message |-> [fmt |-> "% not found: %", resource |-> resource, id |-> id],
     details |-> [resource |-> resource, id |-> id], taxonomy |-> TRUE]

TimeoutError(message) ==
    [name |-> "TimeoutError", code |-> Text("TIMEOUT_ERROR"), message |-> message,
     details |-> Undefined, taxonomy |-> TRUE]

NetworkError(message) ==
    [name |-> "NetworkError", code |-> Text("NETWORK_ERROR"), message |-> message,
     details |-> Undefined, taxonomy |-> TRUE]

DefaultTimeoutMessage == Text("Request timed out")

\* Exceptions of the platform, which are no taxonomy members.
NativeError(name, message) ==
    [name |-> name, message |-> message, taxonomy |-> FALSE]
AbortError == NativeError("AbortError", Text("This operation was aborted"))
FetchFailed == NativeError("TypeError", Text("fetch failed"))
BadJson == NativeError("SyntaxError", Text("Unexpected end of JSON input"))
NullDeref ==
    NativeError("TypeError", Text("Cannot read properties of null"))

(***************************************************************************)
(* Results of calls: a value returned or an exception thrown.              *)
(***************************************************************************)
Return(v) == [kind |-> "return", value |-> v]
Throw(e) == [kind |-> "throw", error |-> e]
Pending == [kind |-> "pending"]

(***************************************************************************)
(* The constructor.                                                        *)
(***************************************************************************)
NoClient == [none |-> TRUE]

KeyPrefix == <<"v", "s", "_">>

\* Faulty variant: the prefix of the key is not checked.
ConstructorNoPrefix(config) ==
    IF config.apiKey = None \/ config.apiKey = Some(<<>>)
    THEN Throw(AuthenticationError(Text("API key is required")))
    ELSE Return([apiKey |-> config.apiKey[1],
                 baseUrl |-> OrStr(config.baseUrl, DEFAULT_BASE_URL),
                 timeout |-> OrNum(config.timeout, DEFAULT_TIMEOUT),
                 debug |-> OrBool(config.debug)])

\* new VidSentry(config)
Constructor(config) ==
    IF config.apiKey = None \/ config.apiKey = Some(<<>>)
    THEN Throw(AuthenticationError(Text("API key is required")))
    ELSE IF ~startsWith(config.apiKey[1], KeyPrefix)
    THEN Throw(AuthenticationError(Text(
             "Invalid API key format. Keys should start with vs_live_ or vs_test_")))
    ELSE Return([apiKey |-> config.apiKey[1],
                 baseUrl |-> OrStr(config.baseUrl, DEFAULT_BASE_URL),
                 timeout |-> OrNum(config.timeout, DEFAULT_TIMEOUT),
                 debug |-> OrBool(config.debug)])

\* The configurations callers pass.
\* The configurations callers pass: every key with the other fields left
\* out, a well-formed key with every timeout, and one configuration with
\* every field set.
KeysIn ==
    {None, Some(<<>>), Some(<<"v", "s">>), Some(<<"s", "k", "_", "v", "s", "_">>),
     Some(<<"v", "s", "_">>), Some(<<"v", "s", "_", "t">>)}
TimeoutsIn == {None} \cup {Some(t) : t \in 0..MaxTimeoutIn}
ConfigsIn ==
    {[apiKey |-> k, baseUrl |-> None, timeout |-> None, debug |-> None] :
        k \in KeysIn \ {Some(<<"v", "s", "_", "t">>)}}
    \cup
    {[apiKey |-> Some(<<"v", "s", "_", "t">>), baseUrl |-> x, timeout |-> t,
      debug |-> Some(FALSE)] : t \in TimeoutsIn, x \in {None, Some("")}}
    \cup
    {[apiKey |-> Some(<<"v", "s", "_", "t">>), baseUrl |-> Some("http://localhost"),
      timeout |-> Some(MaxTimeoutIn), debug |-> Some(TRUE)]}

Construct ==
    /\ client = NoClient
    /\ \E config \in ConfigsIn :
        LET res == Constructor(config) IN
        /\ ctor' = [apiKey |-> config.apiKey, outcome |-> res]
        /\ client' = IF res.kind = "return" THEN res.value ELSE NoClient
    /\ UNCHANGED <<now, wire, remote, termAt, r, w>>
    /\ UNCHANGED opsVars

(***************************************************************************)
(* The remote service: one moderation job row and the responses it sends.  *)
(***************************************************************************)
TerminalStatuses == {"moderated", "blurred", "error", "cancelled"}
JobStatuses == {"pending", "processing"} \cup TerminalStatuses
JobIds == {"job-1"}

\* The row of the job as the REST interface sends it.
WireRow(id, status) ==
    [id |-> id, video_id |-> "video-1", status |-> status,
     original_url |-> "https://x/video.mp4",
     moderated_url |-> IF status \in {"moderated", "blurred"}
                       THEN Some("https://x/moderated.mp4") ELSE None,
     detections |-> None, gemini_analysis |-> None,
     error_msg |-> IF status = "error" THEN Some("failed") ELSE None,
     processing_started_at |-> IF status = "pending" THEN None ELSE Some("t1"),
     processing_completed_at |-> IF status \in TerminalStatuses
                                 THEN Some("t2") ELSE None,
     created_at |-> "t0"]

\* The collection a lookup by id answers with.
RowsOf(id) == IF remote = "absent" THEN <<>> ELSE <<WireRow(id, remote)>>

\* The remote system moves the job on: pending, processing, then one of the
\* terminal statuses (a pending job may also fail or be cancelled).  It is
\* followed until the call of waitForCompletion has ended.
ServerStep ==
    /\ w.pc # "done"
    /\ \E s \in JobStatuses :
        /\ \/ remote = "pending" /\ s \in {"processing", "error", "cancelled"}
           \/ remote = "processing" /\ s \in TerminalStatuses
        /\ remote' = s
        /\ termAt' = IF s \in TerminalStatuses THEN now ELSE termAt
    /\ UNCHANGED <<now, client, ctor, wire, r, w>>
    /\ UNCHANGED opsVars

StatusText(status) ==
    CASE status = 401 -> "Unauthorized"
      [] status = 402 -> "Payment Required"
      [] status = 403 -> "Forbidden"
      [] status = 404 -> "Not Found"
      [] status = 429 -> "Too Many Requests"
      [] status = 500 -> "Internal Server Error"
      [] OTHER -> ""

\* response.ok
Ok(status) == status >= 200 /\ status <= 299

(***************************************************************************)
(* The Transport: request() and handleErrorResponse().                     *)
(***************************************************************************)
NoRequest ==
    [phase |-> "none", op |-> "", req |-> Undefined, start |-> 0,
     deadline |-> 0, timer |-> "none", aborted |-> FALSE, logged |-> FALSE,
     status |-> 0, retryAfter |-> None, rows |-> <<>>, body |-> Undefined,
     outcome |-> Pending, end |-> -1]

\* The start of request(): the controller and the timer are created, the
\* debug line is written and fetch() is called.
RequestStart(op, method, path, body) ==
    [phase |-> "headers", op |-> op,
     req |-> [method |-> method,
              url |-> [base |-> client.baseUrl, path |-> path],
              headers |-> [ContentType |-> "application/json",
                           Authorization |-> <<"Bearer ", client.apiKey>>,
                           apikey |-> client.apiKey],
              body |-> body],
     start |-> now, deadline |-> now + client.timeout, timer |-> "armed",
     aborted |-> FALSE, logged |-> client.debug,
     status |-> 0, retryAfter |-> None, rows |-> <<>>, body |-> Undefined,
     outcome |-> Pending, end |-> -1]

\* Faulty variant: the catch clause does not look for taxonomy members.
RequestCatchWrapAll(error) ==
    IF error.name = "AbortError" THEN Throw(TimeoutError(DefaultTimeoutMessage))
    ELSE Throw(NetworkError(error.message))

\* The catch clause of request().
RequestCatch(error) ==
    IF error.taxonomy THEN Throw(error)
    ELSE IF error.name = "AbortError" THEN Throw(TimeoutError(DefaultTimeoutMessage))
    ELSE Throw(NetworkError(error.message))

\* Bodies of non-2xx responses: not JSON (or empty), the JSON null, or a
\* JSON object with some of the fields error, required and available.
EmptyObject == [error |-> None, required |-> None, available |-> None]
InvalidBody == [kind |-> "invalid"]
NullBody == [kind |-> "null"]
ObjectBody(obj) == [kind |-> "object", obj |-> obj]

\* handleErrorResponse(response): the exception it ends with.
HandleErrorResponse(status, retryAfterHeader, body) ==
    LET errorData == IF body.kind = "object" THEN body.obj ELSE EmptyObject
        message == Text(OrStr(errorData.error, StatusText(status)))
    IN  IF body.kind = "null" THEN NullDeref
        ELSE CASE status = 401 -> AuthenticationError(message)
               [] status = 403 -> AuthenticationError(Text(
                      "API key does not have permission for this action"))
               [] status = 404 -> NotFoundError("Resource", "unknown")
               [] status = 429 ->
                      RateLimitError(message,
                          parseInt10(OrChars(retryAfterHeader, DefaultRetryAfter)))
               [] status = 402 ->
                      InsufficientFundsError(OrNum(errorData.required, 0),
                                             OrNum(errorData.available, 0))
               [] OTHER -> VidSentryError(message, HttpCode(status), errorData)

(***************************************************************************)
(* getJobStatus and waitForCompletion.                                     *)
(***************************************************************************)
JobPath(jobId) == Msg("/rest/v1/moderation_jobs?id=eq.%&select=*", jobId, 0)

\* The record getJobStatus builds from the first row.
JobDetails(job) ==
    [id |-> job.id, videoId |-> job.video_id, status |-> job.status,
     originalUrl |-> job.original_url, moderatedUrl |-> job.moderated_url,
     detections |-> job.detections, geminiAnalysis |-> job.gemini_analysis,
     errorMessage |-> job.error_msg,
     processingStartedAt |-> job.processing_started_at,
     processingCompletedAt |-> job.processing_completed_at,
     createdAt |-> job.created_at]

\* A decoded 2xx body of the job lookup: the JSON null or a collection.
JsonNull == [json |-> "null"]
JsonRows(rows) == [json |-> "array", rows |-> rows]

\* Faulty variant: the record is built from the last row.
GetJobStatusLast(jobId, res) ==
    IF res.kind = "throw" THEN res
    ELSE IF res.value = JsonNull THEN Throw(NotFoundError("Job", jobId))
    ELSE IF Len(res.value.rows) = 0 THEN Throw(NotFoundError("Job", jobId))
    ELSE Return(JobDetails(res.value.rows[Len(res.value.rows)]))

\* getJobStatus after its request() has ended with `res`.
GetJobStatus(jobId, res) ==
    IF res.kind = "throw" THEN res
    ELSE IF res.value = JsonNull THEN Throw(NotFoundError("Job", jobId))
    ELSE IF Len(res.value.rows) = 0 THEN Throw(NotFoundError("Job", jobId))
    ELSE Return(JobDetails(res.value.rows[1]))

\* Faulty variant: 'processing' is in the list.
IsTerminalWithProcessing(status) ==
    status \in {"moderated", "blurred", "error", "cancelled", "processing"}

\* Faulty variant: 'cancelled' is missing from the list.
IsTerminalNoCancelled(status) == status \in {"moderated", "blurred", "error"}

\* ['moderated', 'blurred', 'error', 'cancelled'].includes(status)
IsTerminal(status) == status \in {"moderated", "blurred", "error", "cancelled"}

\* Faulty variants: the bound is inclusive; the loop gives up one
\* millisecond early.
LoopCondInclusive(t, startTime, maxWait) == t - startTime <= maxWait
LoopCondEarly(t, startTime, maxWait) == t - startTime + 1 < maxWait

\* The loop condition of waitForCompletion.
LoopCond(t, startTime, maxWait) == t - startTime < maxWait

\* Faulty variant: a failed status fetch is retried after a sleep.
PollStepRetry(got) ==
    IF got.kind = "throw" THEN "sleep"
    ELSE IF got.value.status \in {"moderated", "blurred", "error", "cancelled"}
    THEN "return"
    ELSE "sleep"

\* What waitForCompletion does with the outcome of one getJobStatus.
PollStep(got) ==
    IF got.kind = "throw" THEN "raise"
    ELSE IF IsTerminal(got.value.status) THEN "return"
    ELSE "sleep"

\* Faulty variant: the sleep is one millisecond short.
SleepOverShort(t, sleepStart, ms) == t - sleepStart >= ms - 1

\* Faulty variant: the delay is not passed to setTimeout.
SleepOverAtOnce(t, sleepStart, ms) == t - sleepStart >= 0

\* setTimeout(resolve, ms) has run for ms or longer.
SleepOver(t, sleepStart, ms) == t - sleepStart >= ms

PollTimeout(jobId, maxWait) ==
    TimeoutError(Msg("Job % did not complete within (%/1000) seconds", jobId, maxWait))

Idle ==
    [pc |-> "idle", jobId |-> "",
     options |-> [maxWait |-> None, pollInterval |-> None],
     maxWait |-> 0, pollInterval |-> 0,
     startTime |-> 0, fetches |-> 0, sleeps |-> 0, sleepStart |-> 0,
     seen |-> <<>>, got |-> Pending, exit |-> "none", result |-> Pending,
     endTime |-> -1]

\* The head of the while loop: another status fetch, or the Timeout.
LoopHead(wv) ==
    IF LoopCond(now, wv.startTime, wv.maxWait)
    THEN LET q == RequestStart("getJobStatus", "GET", JobPath(wv.jobId), None) IN
         /\ w' = [wv EXCEPT !.pc = "fetching", !.fetches = @ + 1]
         /\ r' = q
         /\ wire' = wire \cup {q.req.headers}
    ELSE /\ w' = [wv EXCEPT !.pc = "done", !.exit = "timeout",
                            !.result = Throw(PollTimeout(wv.jobId, wv.maxWait)),
                            !.endTime = now]
         /\ UNCHANGED <<r, wire>>

\* The options callers pass: none, zeros, or a positive bound and interval.
OptionsIn ==
    {[maxWait |-> None, pollInterval |-> None],
     [maxWait |-> Some(0), pollInterval |-> Some(0)]}
    \cup
    {[maxWait |-> Some(m), pollInterval |-> Some(p)] :
        m \in 1..MaxWaitIn, p \in 1..MaxPollIn}

\* waitForCompletion(jobId, options) up to its first await.
WaitForCompletion ==
    /\ client # NoClient
    /\ w.pc = "idle"
    /\ \E jobId \in JobIds, options \in OptionsIn :
        LoopHead([Idle EXCEPT !.jobId = jobId,
                              !.options = options,
                              !.maxWait = OrNum(options.maxWait, DEFAULT_MAX_WAIT),
                              !.pollInterval =
                                  OrNum(options.pollInterval, DEFAULT_POLL_INTERVAL),
                              !.startTime = now])
    /\ UNCHANGED <<now, client, ctor, remote, termAt>>
    /\ UNCHANGED opsVars

\* The request of the status fetch has ended with `res`: getJobStatus
\* finishes and the loop body runs up to its next await.
AfterRequest(res) ==
    LET got == GetJobStatus(w.jobId, res)
        step == PollStep(got)
        wv == [w EXCEPT !.got = got,
                        !.seen = Append(@, IF got.kind = "throw" THEN "throw"
                                           ELSE got.value.status)]
    IN  IF r.op # "getJobStatus" THEN UNCHANGED w
        ELSE IF step = "raise"
        THEN w' = [wv EXCEPT !.pc = "done", !.exit = "error", !.result = got,
                             !.endTime = now]
        ELSE IF step = "return"
        THEN w' = [wv EXCEPT !.pc = "done", !.exit = "success", !.result = got,
                             !.endTime = now]
        ELSE w' = [wv EXCEPT !.pc = "sleeping", !.sleeps = @ + 1,
                             !.sleepStart = now]

\* request() ends with `res`: both of its paths have cleared the timer.
EndRequest(rv, res) ==
    /\ r' = [rv EXCEPT !.phase = "ended", !.outcome = res, !.end = now,
                      !.timer = IF @ = "armed" THEN "cleared" ELSE @]
    /\ AfterRequest(res)

\* The sleep is over: the loop condition is evaluated again.
SleepEnd ==
    /\ w.pc = "sleeping"
    /\ SleepOver(now, w.sleepStart, w.pollInterval)
    /\ LoopHead(w)
    /\ UNCHANGED <<now, client, ctor, remote, termAt>>
    /\ UNCHANGED opsVars

(***************************************************************************)
(* The steps of a Transport invocation.                                    *)
(***************************************************************************)
Response(status, retryAfter) == [status |-> status, retryAfter |-> retryAfter]

\* fetch() resolves with the response's status line and headers; the timer
\* is cleared, and the body is read next: by response.json() in request()
\* for a 2xx, by handleErrorResponse() otherwise.
HeadersArrive(responses) ==
    /\ r.phase = "headers"
    /\ \E resp \in responses :
        r' = [r EXCEPT !.phase = IF Ok(resp.status) THEN "body" ELSE "errbody",
                       !.status = resp.status,
                       !.retryAfter = resp.retryAfter,
                       !.timer = "cleared",
                       !.rows = IF Ok(resp.status) /\ r.op = "getJobStatus"
                                THEN RowsOf(w.jobId) ELSE <<>>]
    /\ UNCHANGED <<now, client, ctor, wire, remote, termAt, w>>
    /\ UNCHANGED opsVars

\* fetch() rejects: the connection failed before any response.
FetchReject ==
    /\ r.phase = "headers"
    /\ EndRequest(r, RequestCatch(FetchFailed))
    /\ UNCHANGED <<now, client, ctor, wire, remote, termAt>>
    /\ UNCHANGED opsVars

\* The deadline timer fires: controller.abort() makes fetch() reject with
\* an AbortError.
AbortFire ==
    /\ r.timer = "armed"
    /\ now >= r.deadline
    /\ EndRequest([r EXCEPT !.timer = "fired", !.aborted = TRUE],
                  RequestCatch(AbortError))
    /\ UNCHANGED <<now, client, ctor, wire, remote, termAt>>
    /\ UNCHANGED opsVars

\* response.json() of a 2xx response settles: with the decoded body, or
\* with an exception when the body is no JSON or the stream broke.
BodyArrive ==
    /\ r.phase = "body"
    /\ \E how \in {"rows", "null", "invalid", "broken"} :
        EndRequest(r, CASE how = "rows" -> Return(JsonRows(r.rows))
                        [] how = "null" -> Return(JsonNull)
                        [] how = "invalid" -> RequestCatch(BadJson)
                        [] how = "broken" -> RequestCatch(FetchFailed))
    /\ UNCHANGED <<now, client, ctor, wire, remote, termAt>>
    /\ UNCHANGED opsVars

\* handleErrorResponse() has read the body of a non-2xx response and throws.
ErrorBodyArrive(bodies) ==
    /\ r.phase = "errbody"
    /\ \E body \in bodies :
        EndRequest([r EXCEPT !.body = body],
                   RequestCatch(HandleErrorResponse(r.status, r.retryAfter, body)))
    /\ UNCHANGED <<now, client, ctor, wire, remote, termAt>>
    /\ UNCHANGED opsVars

\* getMetrics(): one GET with no body.
GetMetrics ==
    /\ client # NoClient
    /\ r.phase = "none"
    /\ w.pc = "idle"
    /\ LET q == RequestStart("getMetrics", "GET",
                             Text("/functions/v1/public-metrics"), None) IN
        /\ r' = q
        /\ wire' = wire \cup {q.req.headers}
    /\ UNCHANGED <<now, client, ctor, remote, termAt, w>>
    /\ UNCHANGED opsVars

\* One millisecond passes.  A timer callback that is due runs before the
\* clock moves on.  The clock is followed from shortly before the call of
\* waitForCompletion until that call has ended.
Tick ==
    /\ now < MaxTime
    /\ w.pc = "idle" => now < MaxStart
    /\ w.pc # "done"
    /\ r.timer = "armed" => now < r.deadline
    /\ now' = now + 1
    /\ UNCHANGED <<client, ctor, wire, remote, termAt, r, w>>
    /\ UNCHANGED opsVars

(***************************************************************************)
(* The inputs of the environment.                                          *)
(***************************************************************************)
SeqsUpTo(S, n) == UNION {[1..k -> S] : k \in 0..n}

HeaderChars == {"1", "7", "a", " ", "-"}
RetryAfterIn == {None} \cup {Some(h) : h \in SeqsUpTo(HeaderChars, MaxHdrLen)}

ErrorStatuses == {400, 401, 402, 403, 404, 429, 500, 503}
ObjectsIn ==
    [error : {None, Some(""), Some("boom")},
     required : {None, Some(0), Some(500)},
     available : {None, Some(0), Some(120)}]
BodiesIn == {InvalidBody, NullBody} \cup {ObjectBody(obj) : obj \in ObjectsIn}

\* Every answer of the server to one call, and the answers to a status poll.
ErrorResponses ==
    {Response(s, None) : s \in ErrorStatuses}
        \cup {Response(429, h) : h \in RetryAfterIn}
PollResponses == {Response(200, None), Response(404, None), Response(500, None)}
PollBodies ==
    {InvalidBody, NullBody,
     ObjectBody([error |-> Some("boom"), required |-> None, available |-> None])}

\* The callers of the domain operations, and a caller that has not called.
CallIds == {1, 2}

NoCall ==
    [pc |-> "none", op |-> "", args |-> Undefined, requests |-> 0,
     controller |-> 0, timeoutId |-> 0, sent |-> Undefined,
     status |-> 0, retryAfter |-> None, decoded |-> Undefined,
     cause |-> None, outcome |-> Pending, result |-> Pending]

(***************************************************************************)
(* Spec: a client is constructed and one job is polled to completion.      *)
(***************************************************************************)
Init ==
    /\ now = 0
    /\ client = NoClient
    /\ ctor = [apiKey |-> None, outcome |-> Pending]
    /\ wire = {}
    /\ remote \in {"absent", "pending"}
    /\ termAt = -1
    /\ r = NoRequest
    /\ w = Idle
    /\ ops = [i \in CallIds |-> NoCall]
    /\ ctl = <<>>
    /\ tmr = <<>>
    /\ netlog = <<>>

Next ==
    \/ Construct
    \/ WaitForCompletion
    \/ HeadersArrive(PollResponses)
    \/ FetchReject
    \/ AbortFire
    \/ BodyArrive
    \/ ErrorBodyArrive(PollBodies)
    \/ SleepEnd
    \/ ServerStep
    \/ Tick

Spec == Init /\ [][Next]_vars

(***************************************************************************)
(* SpecMap: one call of a constructed client is answered with a non-2xx    *)
(* response, over every status, Retry-After header and body of the inputs. *)
(***************************************************************************)
SampleConfig ==
    [apiKey |-> Some(<<"v", "s", "_", "t">>), baseUrl |-> None,
     timeout |-> None, debug |-> None]

InitMap ==
    /\ now = 0
    /\ client = Constructor(SampleConfig).value
    /\ ctor = [apiKey |-> SampleConfig.apiKey, outcome |-> Constructor(SampleConfig)]
    /\ wire = {}
    /\ remote = "absent"
    /\ termAt = -1
    /\ r = NoRequest
    /\ w = Idle
    /\ ops = [i \in CallIds |-> NoCall]
    /\ ctl = <<>>
    /\ tmr = <<>>
    /\ netlog = <<>>

NextMap ==
    \/ GetMetrics
    \/ HeadersArrive(ErrorResponses)
    \/ ErrorBodyArrive(BodiesIn)

SpecMap == InitMap /\ [][NextMap]_vars

(***************************************************************************)
(* SpecOps: moderate, getJobStatus, getSignedUrl and getMetrics are called *)
(* side by side on one client: caller 1 calls any of them, caller 2 reads  *)
(* the metrics.  Every call of request() creates its own AbortController   *)
(* and its own timer; both live in the heaps ctl and tmr.                  *)
(***************************************************************************)
\* Faulty variant: one controller, kept on the instance, serves every call.
NewControllerShared(cs) == 1

\* new AbortController(): an object no other call holds.
NewController(cs) == Len(cs) + 1

\* setTimeout(...) returns the id of a new timer.
NewTimer(ts) == Len(ts) + 1

\* The heap with object `id` created (or, were the id in use, replaced).
Put(heap, id, v) ==
    IF id > Len(heap) THEN Append(heap, v) ELSE [heap EXCEPT ![id] = v]

\* clearTimeout(id): a timer that has not fired never will.
ClearTimeout(ts, id) ==
    [ts EXCEPT ![id].state = IF @ = "armed" THEN "cleared" ELSE @]

\* clearTimeout(timeoutId) after fetch() has resolved.
AfterFetchTimers(ts, id) == ClearTimeout(ts, id)

\* Faulty variant: the catch clause does not clear the timer.
CatchTimersLeak(ts, id) == ts

\* clearTimeout(timeoutId) in the catch clause.
CatchTimers(ts, id) == ClearTimeout(ts, id)

\* Faulty variant: the request is sent a second time.
DispatchTwice(log, entry) == Append(Append(log, entry), entry)

\* fetch(url, init): one network call.
Dispatch(log, entry) == Append(log, entry)

\* request(endpoint, options) of call i up to its await of fetch().
Invoke(i, op, args, method, path, body) ==
    LET c == NewController(ctl)
        t == NewTimer(tmr)
        q == RequestStart(op, method, path, body)
    IN  /\ ops' = [ops EXCEPT ![i] =
                      [NoCall EXCEPT !.pc = "headers", !.op = op, !.args = args,
                                     !.requests = 1, !.controller = c,
                                     !.timeoutId = t, !.sent = q.req]]
        /\ ctl' = Put(ctl, c, FALSE)
        /\ tmr' = Put(tmr, t, [owner |-> i, controller |-> c,
                               due |-> q.deadline, state |-> "armed"])
        /\ netlog' = Dispatch(netlog, [call |-> i, signal |-> c, req |-> q.req])
        /\ wire' = wire \cup {q.req.headers}

\* `a || b` read as a condition, for optional strings.
Truthy(s) == s # None /\ s # Some("")

\* Faulty variant: only videoUrl counts as a locator.
HasLocatorUrlOnly(options) == options.videoUrl # None /\ options.videoUrl # Some("")

\* The negation of the guard of moderate().
HasLocator(options) ==
    Truthy(options.videoUrl) \/ Truthy(options.gcsUri) \/ Truthy(options.filePath)

DefaultSettings == [blur |-> TRUE, mute |-> TRUE]

\* The body moderate() posts.
ModerateBody(options) ==
    [title |-> OrStr(options.title, "SDK Upload"),
     videoUrl |-> options.videoUrl,
     gcsUri |-> options.gcsUri,
     filePath |-> options.filePath,
     tier |-> OrStr(options.tier, "standard"),
     settings |-> IF options.settings = None THEN DefaultSettings
                  ELSE options.settings[1]]

ValidationError ==
    VidSentryError(Text("One of videoUrl, gcsUri, or filePath is required"),
                   Text("VALIDATION_ERROR"), Undefined)

\* The options callers pass to moderate().
ModerateOptionsIn ==
    [videoUrl : {None, Some(""), Some("https://x/video.mp4")},
     gcsUri : {None, Some("gs://bucket/video.mp4")},
     filePath : {None, Some("uploads/video.mp4")},
     title : {None},
     tier : {None},
     settings : {None}]

\* moderate(options) of caller i up to its first await.
CallModerate(i) ==
    /\ client # NoClient
    /\ ops[i].pc = "none"
    /\ i = 1
    /\ \E options \in ModerateOptionsIn :
        IF HasLocator(options)
        THEN Invoke(i, "moderate", options, "POST",
                    Text("/functions/v1/unified-moderate"),
                    Some(ModerateBody(options)))
        ELSE /\ ops' = [ops EXCEPT ![i] =
                           [NoCall EXCEPT !.pc = "done", !.op = "moderate",
                                          !.args = options,
                                          !.result = Throw(ValidationError)]]
             /\ UNCHANGED <<ctl, tmr, netlog, wire>>
    /\ UNCHANGED <<now, client, ctor, remote, termAt, r, w>>

\* The job ids callers ask for.
OpsJobIds == {"job-1", "job-2"}

\* getJobStatus(jobId) of caller i up to its await.
CallGetJobStatus(i) ==
    /\ client # NoClient
    /\ ops[i].pc = "none"
    /\ i = 1
    /\ \E jobId \in OpsJobIds :
        Invoke(i, "getJobStatus", [jobId |-> jobId], "GET", JobPath(jobId), None)
    /\ UNCHANGED <<now, client, ctor, remote, termAt, r, w>>

\* getSignedUrl(videoId) of caller i up to its await.
CallGetSignedUrl(i) ==
    /\ client # NoClient
    /\ ops[i].pc = "none"
    /\ i = 1
    /\ \E videoId \in {"video-1"} :
        Invoke(i, "getSignedUrl", [videoId |-> videoId], "POST",
               Text("/functions/v1/get-signed-video-url"),
               Some([videoId |-> videoId]))
    /\ UNCHANGED <<now, client, ctor, remote, termAt, r, w>>

\* getMetrics() of caller i up to its await.
CallGetMetrics(i) ==
    /\ client # NoClient
    /\ ops[i].pc = "none"
    /\ Invoke(i, "getMetrics", Undefined, "GET",
              Text("/functions/v1/public-metrics"), None)
    /\ UNCHANGED <<now, client, ctor, remote, termAt, r, w>>

JsonObject(obj) == [json |-> "object", obj |-> obj]

\* getSignedUrl after its request() has ended with `res`.
GetSignedUrlResult(res) ==
    IF res.kind = "throw" THEN res
    ELSE IF res.value = JsonNull THEN Throw(NullDeref)
    ELSE Return([url |-> res.value.obj.signedUrl,
                 expiresAt |-> res.value.obj.expiresAt])

\* What the operation does with the outcome of its request().
OpResult(op, args, res) ==
    CASE op = "getJobStatus" -> GetJobStatus(args.jobId, res)
      [] op = "getSignedUrl" -> GetSignedUrlResult(res)
      [] OTHER -> res

\* request() of the call ends with `res` after catching `cause` (None when
\* nothing was thrown), and the operation finishes.
Ended(cv, cause, res) ==
    [cv EXCEPT !.pc = "done", !.cause = cause, !.outcome = res,
               !.result = OpResult(cv.op, cv.args, res)]

\* The collections the job lookup is answered with: none, one or two rows,
\* the row asked for first or last.
OpsRowsIn(jobId) ==
    {<<>>,
     <<WireRow(jobId, "processing")>>,
     <<WireRow(jobId, "moderated"), WireRow("job-9", "pending")>>,
     <<WireRow("job-9", "pending"), WireRow(jobId, "moderated")>>}

\* The decoded 2xx bodies the operation of a call may meet.
PayloadsOf(cv) ==
    {JsonNull} \cup
    CASE cv.op = "getJobStatus" -> {JsonRows(rows) : rows \in OpsRowsIn(cv.args.jobId)}
      [] cv.op = "getSignedUrl" ->
            {JsonObject([signedUrl |-> "https://x/signed", expiresAt |-> "t9"])}
      [] cv.op = "moderate" ->
            {JsonObject([success |-> TRUE, videoId |-> "video-1",
                         jobId |-> "job-1", tier |-> cv.sent.body[1].tier,
                         estimatedCost |-> 150])}
      [] OTHER -> {JsonObject([uptime |-> 99])}

OpsResponses ==
    {Response(200, None), Response(404, None), Response(500, None)}
OpsBodies ==
    {InvalidBody, NullBody,
     ObjectBody([error |-> Some("boom"), required |-> Some(500),
                 available |-> Some(120)])}

\* fetch() of call i resolves with the status line and the headers.
OpHeaders(i) ==
    /\ ops[i].pc = "headers"
    /\ \E resp \in OpsResponses :
        ops' = [ops EXCEPT ![i].pc = IF Ok(resp.status) THEN "body" ELSE "errbody",
                           ![i].status = resp.status,
                           ![i].retryAfter = resp.retryAfter]
    /\ tmr' = AfterFetchTimers(tmr, ops[i].timeoutId)
    /\ UNCHANGED <<now, client, ctor, wire, remote, termAt, r, w, ctl, netlog>>

\* fetch() of call i rejects: the connection failed.
OpReject(i) ==
    /\ ops[i].pc = "headers"
    /\ ops' = [ops EXCEPT ![i] =
                  Ended(@, Some(FetchFailed), RequestCatch(FetchFailed))]
    /\ tmr' = CatchTimers(tmr, ops[i].timeoutId)
    /\ UNCHANGED <<now, client, ctor, wire, remote, termAt, r, w, ctl, netlog>>

\* response.json() of the 2xx response of call i settles.
OpBody(i) ==
    /\ ops[i].pc = "body"
    /\ \/ \E v \in PayloadsOf(ops[i]) :
            /\ ops' = [ops EXCEPT ![i] =
                          Ended([@ EXCEPT !.decoded = v], None, Return(v))]
            /\ UNCHANGED tmr
       \/ \E e \in {BadJson, FetchFailed} :
            /\ ops' = [ops EXCEPT ![i] = Ended(@, Some(e), RequestCatch(e))]
            /\ tmr' = CatchTimers(tmr, ops[i].timeoutId)
    /\ UNCHANGED <<now, client, ctor, wire, remote, termAt, r, w, ctl, netlog>>

\* handleErrorResponse() of call i has read the body and throws.
OpErrorBody(i) ==
    /\ ops[i].pc = "errbody"
    /\ \E body \in OpsBodies :
        LET e == HandleErrorResponse(ops[i].status, ops[i].retryAfter, body) IN
        ops' = [ops EXCEPT ![i] =
                   Ended([@ EXCEPT !.decoded = body], Some(e), RequestCatch(e))]
    /\ tmr' = CatchTimers(tmr, ops[i].timeoutId)
    /\ UNCHANGED <<now, client, ctor, wire, remote, termAt, r, w, ctl, netlog>>

\* The timers of the calls `ids` cleared by their catch clauses.
RECURSIVE CatchAll(_, _)
CatchAll(ts, ids) ==
    IF ids = {} THEN ts
    ELSE LET j == CHOOSE j \in ids : TRUE IN
         CatchAll(CatchTimers(ts, ops[j].timeoutId), ids \ {j})

\* A timer is due: its callback aborts the controller it was created with.
\* Every call whose fetch() or body read listens to that controller's
\* signal is rejected with an AbortError; handleErrorResponse() swallows
\* it, as it does any failure to read the body.
TimerFire ==
    \E t \in DOMAIN tmr :
        /\ tmr[t].state = "armed"
        /\ now >= tmr[t].due
        /\ LET c == tmr[t].controller
               hit == {j \in CallIds : /\ ops[j].controller = c
                                       /\ ops[j].pc \in {"headers", "body", "errbody"}}
               Caught(j) == IF ops[j].pc = "errbody"
                            THEN HandleErrorResponse(ops[j].status,
                                                     ops[j].retryAfter, InvalidBody)
                            ELSE AbortError
           IN  /\ ctl' = [ctl EXCEPT ![c] = TRUE]
               /\ tmr' = CatchAll([tmr EXCEPT ![t].state = "fired"], hit)
               /\ ops' = [j \in CallIds |->
                            IF j \in hit
                            THEN Ended(ops[j], Some(Caught(j)), RequestCatch(Caught(j)))
                            ELSE ops[j]]
        /\ UNCHANGED <<now, client, ctor, wire, remote, termAt, r, w, netlog>>

\* One millisecond passes, unless a timer callback is due.
OpsTick ==
    /\ now < MaxOpsTime
    /\ \A t \in DOMAIN tmr : tmr[t].state = "armed" => now < tmr[t].due
    /\ now' = now + 1
    /\ UNCHANGED <<client, ctor, wire, remote, termAt, r, w, ops, ctl, tmr, netlog>>

\* The configurations of the client the calls are made on.
OpsConfigsIn ==
    {[apiKey |-> Some(<<"v", "s", "_", "t">>), baseUrl |-> None,
      timeout |-> t, debug |-> None] :
        t \in {None} \cup {Some(n) : n \in 1..MaxTimeoutIn}}

InitOps ==
    /\ now = 0
    /\ \E config \in OpsConfigsIn :
        /\ client = Constructor(config).value
        /\ ctor = [apiKey |-> config.apiKey, outcome |-> Constructor(config)]
    /\ wire = {}
    /\ remote = "absent"
    /\ termAt = -1
    /\ r = NoRequest
    /\ w = Idle
    /\ ops = [i \in CallIds |-> NoCall]
    /\ ctl = <<>>
    /\ tmr = <<>>
    /\ netlog = <<>>

NextOps ==
    \/ \E i \in CallIds : CallModerate(i)
    \/ \E i \in CallIds : CallGetJobStatus(i)
    \/ \E i \in CallIds : CallGetSignedUrl(i)
    \/ \E i \in CallIds : CallGetMetrics(i)
    \/ \E i \in CallIds : OpHeaders(i)
    \/ \E i \in CallIds : OpReject(i)
    \/ \E i \in CallIds : OpBody(i)
    \/ \E i \in CallIds : OpErrorBody(i)
    \/ TimerFire
    \/ OpsTick

SpecOps == InitOps /\ [][NextOps]_vars

(***************************************************************************)
(* SpecLeap: one job, whose status does not change during the call, is    *)
(* polled to completion over a clock that moves from one timer to the     *)
(* next, so that the default bound and interval are reached.  The clock    *)
(* advances and the timers that are due fire; nothing is assumed of the    *)
(* network.                                                                *)
(***************************************************************************)
\* The instants at which a timer in use is due: the deadline of the request
\* and the end of the sleep.
TimersDue ==
    {r.deadline : x \in 1 .. (IF r.timer = "armed" THEN 1 ELSE 0)}
        \cup {w.sleepStart + w.pollInterval :
                  x \in 1 .. (IF w.pc = "sleeping" THEN 1 ELSE 0)}

\* Time passes until the next timer is due.
Leap ==
    /\ TimersDue # {}
    /\ \A d \in TimersDue : now < d
    /\ now' = CHOOSE d \in TimersDue : \A e \in TimersDue : d <= e
    /\ UNCHANGED <<client, ctor, wire, remote, termAt, r, w>>
    /\ UNCHANGED opsVars

InitLeap ==
    /\ now = 0
    /\ client = Constructor(SampleConfig).value
    /\ ctor = [apiKey |-> SampleConfig.apiKey, outcome |-> Constructor(SampleConfig)]
    /\ wire = {}
    /\ remote \in {"absent", "pending", "processing", "blurred"}
    /\ termAt = -1
    /\ r = NoRequest
    /\ w = Idle
    /\ ops = [i \in CallIds |-> NoCall]
    /\ ctl = <<>>
    /\ tmr = <<>>
    /\ netlog = <<>>

NextLeap ==
    \/ WaitForCompletion
    \/ HeadersArrive(PollResponses)
    \/ FetchReject
    \/ AbortFire
    \/ BodyArrive
    \/ ErrorBodyArrive(PollBodies)
    \/ SleepEnd
    \/ Leap

SpecLeap ==
    /\ InitLeap
    /\ [][NextLeap]_vars
    /\ WF_vars(Leap)
    /\ WF_vars(AbortFire)
    /\ WF_vars(SleepEnd)

(***************************************************************************)
(* Properties.                                                             *)
(***************************************************************************)
CeilDiv(a, b) == (a + b - 1) \div b
Last(q) == q[Len(q)]
NonTerminalStatuses == {"pending", "processing"}
PollTimeoutFmt == "Job % did not complete within (%/1000) seconds"

\* The call is in flight: request() has neither returned nor thrown.
InFlight == r.phase \in {"headers", "body", "errbody"}

\* C1: a Transport call whose response has not completed when the
\* configured timeout has elapsed since its start is aborted and ends with
\* TimeoutError, whichever phase it is in: no call is in flight after its
\* deadline, and a call that ends after its deadline was aborted and ends
\* with TIMEOUT_ERROR.
C1_DeadlineEnforcedInEveryPhase ==
    /\ InFlight => now <= r.start + client.timeout
    /\ r.phase = "ended" /\ r.end > r.start + client.timeout =>
        /\ r.aborted
        /\ r.outcome = Throw(TimeoutError(DefaultTimeoutMessage))

\* C2 (as claimed): with P <= M, if the remote job reached a terminal status
\* before M had elapsed since waitForCompletion started (and no status fetch
\* raised), the call returns that job, no later than M plus the duration of
\* one status fetch after its start.
C2_TerminalInTimeIsReturned ==
    ( /\ w.pc = "done"
      /\ w.exit # "error"
      /\ w.pollInterval <= w.maxWait
      /\ termAt >= 0
      /\ termAt - w.startTime < w.maxWait )
    => /\ w.exit = "success"
       /\ w.result.value.status = remote
       /\ w.endTime <= w.startTime + w.maxWait + (r.end - r.start)

\* C2 (amended): a status fetch that returns a terminal status ends the call
\* with exactly that job; every job returned is terminal and was fetched by
\* a request started before M had elapsed, so the call returns earlier than
\* M plus the duration of that fetch after its start.
C2_TerminalFetchIsReturned ==
    /\ (w.got.kind = "return" /\ w.got.value.status \in TerminalStatuses) =>
        /\ w.pc = "done"
        /\ w.exit = "success"
        /\ w.result = w.got
    /\ w.exit = "success" =>
        /\ w.result.kind = "return"
        /\ w.result.value.status \in TerminalStatuses
        /\ w.endTime = r.end
        /\ r.start - w.startTime < w.maxWait
        /\ w.endTime < w.startTime + w.maxWait + (r.end - r.start)

\* The job became terminal while the call was sleeping and a later fetch
\* returned it.
C2_Witness ==
    /\ w.exit = "success"
    /\ w.fetches >= 2
    /\ termAt > w.startTime
    /\ w.endTime > termAt

\* The result is the poller's own Timeout.
IsPollTimeout(res) ==
    /\ res.kind = "throw"
    /\ res.error.message.fmt = PollTimeoutFmt

\* C3: waitForCompletion raises its own Timeout (TIMEOUT_ERROR, naming the
\* job and maxWait/1000 seconds) only when at least maxWait has elapsed
\* since the call started and no status fetch of the call returned a
\* terminal status.
C3_TimeoutOnlyAfterMaxWait ==
    /\ IsPollTimeout(w.result) =>
        /\ w.exit = "timeout"
        /\ w.endTime - w.startTime >= w.maxWait
        /\ \A i \in 1..Len(w.seen) : w.seen[i] \notin TerminalStatuses
        /\ w.result.error.name = "TimeoutError"
        /\ w.result.error.code = Text("TIMEOUT_ERROR")
        /\ w.result.error.message.id = w.jobId
        /\ w.result.error.message.n = w.maxWait
    /\ w.exit = "timeout" => IsPollTimeout(w.result)

C3_Witness ==
    /\ IsPollTimeout(w.result)
    /\ w.maxWait >= 2
    /\ w.fetches >= 2
    /\ w.endTime - w.startTime > w.maxWait

\* C4: with P <= M, one call of waitForCompletion performs at most
\* ceil(M / P) + 1 status fetches.
C4_FetchBound ==
    (w.pc # "idle" /\ w.pollInterval <= w.maxWait)
        => w.fetches <= CeilDiv(w.maxWait, w.pollInterval) + 1

C4_Witness ==
    /\ w.pc = "done"
    /\ w.pollInterval < w.maxWait
    /\ w.fetches >= 2
    /\ w.fetches = CeilDiv(w.maxWait, w.pollInterval)

\* C5: a status fetch that returns a terminal status ends the call with
\* exactly that job, with no sleep and no fetch after it; every
\* non-terminal result is followed by one sleep of the poll interval before
\* the loop condition is evaluated again.
C5_ReturnWithoutSleep ==
    /\ Len(w.seen) = w.fetches - (IF w.pc = "fetching" THEN 1 ELSE 0)
    /\ w.sleeps = Cardinality({i \in 1..Len(w.seen) :
                                   w.seen[i] \in NonTerminalStatuses})
    /\ \A i \in 1..(Len(w.seen) - 1) : w.seen[i] \in NonTerminalStatuses
    /\ (w.seen # <<>> /\ Last(w.seen) \in TerminalStatuses) =>
        /\ w.pc = "done"
        /\ w.exit = "success"
        /\ w.result = w.got
        /\ w.result.value.status = Last(w.seen)
        /\ r.phase = "ended"
    /\ (w.seen # <<>> /\ Last(w.seen) \in NonTerminalStatuses) =>
        \/ w.pc = "sleeping" /\ w.sleepStart = r.end
        \/ w.pc = "fetching" /\ r.start - w.sleepStart >= w.pollInterval
        \/ w.exit = "timeout" /\ w.endTime - w.sleepStart >= w.pollInterval

\* pending, then moderated on the next poll: two fetches and one sleep.
C5_Witness ==
    /\ w.seen = <<"pending", "moderated">>
    /\ w.fetches = 2
    /\ w.sleeps = 1
    /\ w.result.kind = "return"
    /\ w.result.value.status = "moderated"

\* C6: an error raised by a status fetch ends waitForCompletion at once
\* with that same error, whatever remains of max-wait, with no fetch and no
\* sleep after it.
C6_FetchErrorPropagates ==
    /\ w.got.kind = "throw" =>
        /\ w.pc = "done"
        /\ w.exit = "error"
        /\ w.result = w.got
        /\ w.endTime = r.end
        /\ r.phase = "ended"
        /\ Len(w.seen) = w.fetches
        /\ w.sleeps = w.fetches - 1
        /\ r.outcome.kind = "throw" => w.result = r.outcome
        /\ r.outcome.kind = "return" =>
               w.result = Throw(NotFoundError("Job", w.jobId))
    /\ w.exit = "error" => w.got.kind = "throw"
    /\ (r.op = "getJobStatus" /\ r.phase = "ended" /\ r.outcome.kind = "throw")
           => w.exit = "error"

\* The second status fetch times out while most of max-wait remains.
C6_Witness ==
    /\ w.exit = "error"
    /\ w.fetches = 2
    /\ w.result.error.code = Text("TIMEOUT_ERROR")
    /\ w.endTime - w.startTime < w.maxWait

\* What the claims expect of the body of a non-2xx response: the decoded
\* object, or the empty map when the body is empty or no JSON object.
BodyData(body) == IF body.kind = "object" THEN body.obj ELSE EmptyObject
FieldOrZero(x) == IF x = None THEN 0 ELSE x[1]

\* A call has ended on a non-2xx response.
EndedOnErrorStatus == r.phase = "ended" /\ r.status # 0 /\ ~Ok(r.status)

\* C7: every non-2xx response is raised as the taxonomy member of its
\* status: Authentication for 401 and 403, InsufficientFunds for 402,
\* NotFound for 404, RateLimit for 429, each with its detail fields, and
\* for any other status s a generic error with code HTTP_<s> whose details
\* are the decoded body (the empty map for an empty or non-JSON body).
C7_StatusMapping ==
    EndedOnErrorStatus =>
        /\ r.outcome.kind = "throw"
        /\ LET e == r.outcome.error
               data == BodyData(r.body)
           IN  CASE r.status \in {401, 403} ->
                        /\ e.name = "AuthenticationError"
                        /\ e.code = Text("AUTHENTICATION_ERROR")
                 [] r.status = 402 ->
                        /\ e.name = "InsufficientFundsError"
                        /\ e.code = Text("INSUFFICIENT_FUNDS")
                        /\ e.details = [required |-> FieldOrZero(data.required),
                                        available |-> FieldOrZero(data.available)]
                 [] r.status = 404 ->
                        /\ e.name = "NotFoundError"
                        /\ e.code = Text("NOT_FOUND")
                        /\ DOMAIN e.details = {"resource", "id"}
                 [] r.status = 429 ->
                        /\ e.name = "RateLimitError"
                        /\ e.code = Text("RATE_LIMIT_ERROR")
                        /\ DOMAIN e.details = {"retryAfter"}
                 [] OTHER ->
                        /\ e.name = "VidSentryError"
                        /\ e.code = HttpCode(r.status)
                        /\ e.details = data

\* C8: the RateLimit error of a 429 response carries the integer value of
\* the Retry-After header when that parses as an integer, and 60 when the
\* header is absent or does not parse; retryAfter is never a non-number.
C8_RetryAfterOrSixty ==
    ( /\ r.phase = "ended"
      /\ r.status = 429
      /\ r.outcome.kind = "throw"
      /\ r.outcome.error.name = "RateLimitError" )
    => LET e == r.outcome.error
           parsed == IF r.retryAfter = None THEN NaN ELSE parseInt10(r.retryAfter[1])
       IN  /\ ~e.retryAfter.nan
           /\ e.retryAfter = IF parsed.nan THEN Num(60) ELSE parsed
           /\ e.details = [retryAfter |-> e.retryAfter]

\* C9: a 402 response whose body carries numeric required and available is
\* raised as InsufficientFunds (INSUFFICIENT_FUNDS) whose fields and details
\* are exactly those values; a field missing from the body is reported as 0.
C9_InsufficientFundsExact ==
    ( /\ r.phase = "ended"
      /\ r.status = 402
      /\ r.body.kind \in {"object", "invalid"} )
    => /\ r.outcome.kind = "throw"
       /\ LET e == r.outcome.error
              data == BodyData(r.body)
          IN  /\ e.name = "InsufficientFundsError"
              /\ e.code = Text("INSUFFICIENT_FUNDS")
              /\ e.required = FieldOrZero(data.required)
              /\ e.available = FieldOrZero(data.available)
              /\ e.details = [required |-> FieldOrZero(data.required),
                              available |-> FieldOrZero(data.available)]

\* 402 with {required: 5.00, available: 1.20}.
C9_Witness ==
    /\ r.phase = "ended"
    /\ r.status = 402
    /\ r.body = ObjectBody([error |-> None, required |-> Some(500),
                            available |-> Some(120)])
    /\ r.outcome.error.required = 500
    /\ r.outcome.error.available = 120

\* A key that is missing, empty, or does not start with vs_.
BadKey(k) ==
    \/ k = None
    \/ k[1] = <<>>
    \/ Len(k[1]) < 3
    \/ SubSeq(k[1], 1, 3) # <<"v", "s", "_">>

\* C10: constructing a client with a missing or empty key, or one that
\* does not start with vs_, raises Authentication (AUTHENTICATION_ERROR),
\* leaves no client and makes no network call; every network call ever
\* issued carries a non-empty key starting with vs_.
C10_BadKeyRejected ==
    /\ (ctor.outcome.kind # "pending" /\ BadKey(ctor.apiKey)) =>
        /\ ctor.outcome.kind = "throw"
        /\ ctor.outcome.error.name = "AuthenticationError"
        /\ ctor.outcome.error.code = Text("AUTHENTICATION_ERROR")
        /\ client = NoClient
        /\ wire = {}
    /\ client # NoClient => ~BadKey(Some(client.apiKey))
    /\ \A h \in wire :
        /\ ~BadKey(Some(h.apikey))
        /\ h.Authorization = <<"Bearer ", h.apikey>>

\* A key with the wrong prefix has been refused.
C10_Witness ==
    /\ ctor.apiKey = Some(<<"s", "k", "_", "v", "s", "_">>)
    /\ ctor.outcome.kind = "throw"
    /\ client = NoClient

\* The network calls, and the timers, made on behalf of caller i.
CallsOf(i) == {k \in DOMAIN netlog : netlog[k].call = i}
TimersOf(i) == {t \in DOMAIN tmr : tmr[t].owner = i}
Absent(s) == s = None \/ s = Some("")

\* C11: moderate() called with none of videoUrl, gcsUri and filePath
\* present (each absent or empty) has raised the generic error with code
\* VALIDATION_ERROR and has made no Transport invocation, no network call
\* and no timer; called with at least one of them present it has issued
\* exactly one network call, a POST to the moderation endpoint.
C11_ModerateValidation ==
    \A i \in CallIds :
        ops[i].op = "moderate" =>
            IF /\ Absent(ops[i].args.videoUrl)
               /\ Absent(ops[i].args.gcsUri)
               /\ Absent(ops[i].args.filePath)
            THEN /\ ops[i].pc = "done"
                 /\ ops[i].result.kind = "throw"
                 /\ ops[i].result.error.name = "VidSentryError"
                 /\ ops[i].result.error.code = Text("VALIDATION_ERROR")
                 /\ ops[i].requests = 0
                 /\ CallsOf(i) = {}
                 /\ TimersOf(i) = {}
            ELSE /\ ops[i].requests = 1
                 /\ Cardinality(CallsOf(i)) = 1
                 /\ Cardinality(TimersOf(i)) = 1
                 /\ \A k \in CallsOf(i) :
                        /\ netlog[k].req.method = "POST"
                        /\ netlog[k].req.url.path = Text("/functions/v1/unified-moderate")
                        /\ netlog[k].req.body = Some(ModerateBody(ops[i].args))

\* moderate() was refused for an empty videoUrl, with nothing sent, while
\* another call of the client was on the network.
C11_Witness ==
    /\ ops[1].op = "moderate"
    /\ ops[1].args.videoUrl = Some("")
    /\ ops[1].result = Throw(ValidationError)
    /\ ops[2].pc = "headers"
    /\ Len(netlog) = 1

\* C12: getJobStatus(id) whose request was answered 2xx with an empty
\* collection (or with null) raises NotFound with details resource "Job"
\* and the id asked for; answered with a non-empty collection it raises
\* nothing and returns the record built from the first element.
C12_JobLookup ==
    \A i \in CallIds :
        (ops[i].op = "getJobStatus" /\ ops[i].pc = "done"
            /\ ops[i].outcome.kind = "return") =>
            IF ops[i].decoded = JsonNull \/ ops[i].decoded = JsonRows(<<>>)
            THEN /\ ops[i].result.kind = "throw"
                 /\ ops[i].result.error.name = "NotFoundError"
                 /\ ops[i].result.error.code = Text("NOT_FOUND")
                 /\ ops[i].result.error.details =
                        [resource |-> "Job", id |-> ops[i].args.jobId]
            ELSE LET first == ops[i].decoded.rows[1] IN
                 /\ ops[i].result.kind = "return"
                 /\ ops[i].result.value.id = first.id
                 /\ ops[i].result.value.status = first.status
                 /\ ops[i].result.value.videoId = first.video_id
                 /\ ops[i].result.value.moderatedUrl = first.moderated_url

\* A lookup of job-2 was answered with two rows and returned the first,
\* the row of another job.
C12_Witness ==
    /\ ops[1].op = "getJobStatus"
    /\ ops[1].args.jobId = "job-2"
    /\ ops[1].pc = "done"
    /\ ops[1].outcome.kind = "return"
    /\ ops[1].decoded # JsonNull
    /\ Len(ops[1].decoded.rows) = 2
    /\ ops[1].result.kind = "return"
    /\ ops[1].result.value.id = "job-9"
    /\ ops[1].result.value.status = "pending"

\* C13: every Transport invocation makes exactly one network call, every
\* call of moderate, getJobStatus, getSignedUrl or getMetrics makes at most
\* one Transport invocation whatever its outcome, and a call whose request
\* failed has not sent a second one: the error is raised to the caller.
C13_OneCallNoRetry ==
    \A i \in CallIds :
        /\ ops[i].requests <= 1
        /\ Cardinality(CallsOf(i)) = ops[i].requests
        /\ (ops[i].pc = "done" /\ ops[i].outcome.kind = "throw") =>
               /\ Cardinality(CallsOf(i)) = 1
               /\ ops[i].result = ops[i].outcome

\* getSignedUrl failed on the network after its one and only fetch.
C13_Witness ==
    /\ ops[1].op = "getSignedUrl"
    /\ ops[1].pc = "done"
    /\ ops[1].result = Throw(NetworkError(FetchFailed.message))
    /\ ops[1].status = 0
    /\ Cardinality(CallsOf(1)) = 1
    /\ ops[2].pc = "none"

\* Caller i has entered request().
Started(i) == ops[i].requests > 0

\* C14: two Transport calls of one client made side by side hold different
\* cancellation signals and different timers; a step of one of them (its
\* response, its failure, its deadline firing) leaves the other call, the
\* other's signal and the other's timer as they were; and no step changes
\* the configuration of the client.
C14_CallsIndependent ==
    [][ /\ client' = client
        /\ \A i, j \in CallIds :
            (i # j /\ Started(i)' /\ Started(j)') =>
                /\ ops'[i].controller # ops'[j].controller
                /\ ops'[i].timeoutId # ops'[j].timeoutId
                /\ tmr'[ops'[i].timeoutId].controller = ops'[i].controller
        /\ \A i, j \in CallIds :
            (i # j /\ Started(j) /\ ops'[i] # ops[i]) =>
                /\ ops'[j] = ops[j]
                /\ ctl'[ops[j].controller] = ctl[ops[j].controller]
                /\ tmr'[ops[j].timeoutId] = tmr[ops[j].timeoutId]
      ]_vars

\* The deadline of call 1 has fired and call 1 has ended with Timeout while
\* call 2, started later, still waits for its response with its own timer
\* armed and its signal untouched.
C14_Witness ==
    /\ ops[1].pc = "done"
    /\ ops[1].result = Throw(TimeoutError(DefaultTimeoutMessage))
    /\ tmr[ops[1].timeoutId].state = "fired"
    /\ ops[2].pc = "headers"
    /\ tmr[ops[2].timeoutId].state = "armed"
    /\ ~ctl[ops[2].controller]
    /\ client.timeout = 1

\* C15: a Transport call has created exactly one timer, armed from the
\* start of the call for as long as fetch() is pending; a caller that made
\* no Transport call has created none; and once the call has returned or
\* raised (2xx success, mapped non-2xx error, deadline abort, network
\* failure, undecodable body) its timer is cleared or has fired.
C15_NoTimerLeftArmed ==
    \A i \in CallIds :
        IF Started(i)
        THEN /\ TimersOf(i) = {ops[i].timeoutId}
             /\ ops[i].pc = "headers" => tmr[ops[i].timeoutId].state = "armed"
             /\ ops[i].pc = "done" =>
                    tmr[ops[i].timeoutId].state \in {"cleared", "fired"}
        ELSE TimersOf(i) = {}

\* Call 1 ended on a connection failure with its timer cleared, call 2 on
\* its deadline with its timer fired.
C15_Witness ==
    /\ ops[1].pc = "done"
    /\ ops[1].cause = Some(FetchFailed)
    /\ ops[1].status = 0
    /\ tmr[ops[1].timeoutId].state = "cleared"
    /\ ops[2].pc = "done"
    /\ ops[2].cause = Some(AbortError)
    /\ tmr[ops[2].timeoutId].state = "fired"

\* C16: a failure that leaves the Transport is a taxonomy member: the
\* exception caught, unchanged, when that was a taxonomy member already
\* (the error of the status mapping); otherwise Timeout when the exception
\* was the abort of the call, and Network carrying the exception's message
\* in every other case.
C16_OneClassification ==
    \A i \in CallIds :
        (Started(i) /\ ops[i].pc = "done" /\ ops[i].outcome.kind = "throw") =>
            LET e == ops[i].outcome.error
                c == ops[i].cause[1]
            IN  /\ ops[i].cause # None
                /\ e.taxonomy
                /\ IF c.taxonomy THEN e = c
                   ELSE IF c.name = "AbortError"
                   THEN /\ e.name = "TimeoutError"
                        /\ e.code = Text("TIMEOUT_ERROR")
                   ELSE /\ e.name = "NetworkError"
                        /\ e.code = Text("NETWORK_ERROR")
                        /\ e.message = c.message

\* Call 1 raised the NotFound of the status mapping as it was built; call 2
\* was given a 500 with the body null, and the TypeError of reading it
\* became a Network error.
C16_Witness ==
    /\ ops[1].pc = "done"
    /\ ops[1].status = 404
    /\ ops[1].outcome = Throw(NotFoundError("Resource", "unknown"))
    /\ ops[1].cause = Some(NotFoundError("Resource", "unknown"))
    /\ ops[2].pc = "done"
    /\ ops[2].status = 500
    /\ ops[2].cause = Some(NullDeref)
    /\ ops[2].outcome = Throw(NetworkError(NullDeref.message))

\* C17: the poller leaves waiting only for one of three terminal states.
\* It returns (terminal-success) only out of a status fetch and only a job
\* whose status is moderated, blurred, error or cancelled; it raises its
\* Timeout (terminal-timeout) only when max-wait or more has elapsed since
\* the start; it raises anything else (terminal-error) only out of a status
\* fetch, and then the error that fetch raised; and once it is terminal it
\* starts no fetch and no sleep.
C17_PollerTransitions ==
    [][ /\ w'.exit \in {"none", "success", "timeout", "error"}
        /\ (w'.pc = "done") = (w'.exit # "none")
        /\ w.exit # "none" =>
               /\ w' = w
               /\ r' = r
               /\ wire' = wire
        /\ (w.exit = "none" /\ w'.exit = "success") =>
               /\ w.pc = "fetching"
               /\ r'.phase = "ended"
               /\ w'.result.kind = "return"
               /\ w'.result.value.status
                      \in {"moderated", "blurred", "error", "cancelled"}
               /\ w'.result = w'.got
        /\ (w.exit = "none" /\ w'.exit = "timeout") =>
               /\ w.pc = "sleeping"
               /\ now' - w'.startTime >= w'.maxWait
               /\ w'.result = Throw(PollTimeout(w.jobId, w.maxWait))
               /\ r' = r
        /\ (w.exit = "none" /\ w'.exit = "error") =>
               /\ w.pc = "fetching"
               /\ r'.phase = "ended"
               /\ w'.got.kind = "throw"
               /\ w'.result = w'.got
               /\ w'.got = GetJobStatus(w.jobId, r'.outcome)
      ]_vars

\* The poller has returned a cancelled job out of its second status fetch.
C17_Witness ==
    /\ w.exit = "success"
    /\ w.seen = <<"processing", "cancelled">>
    /\ w.result.kind = "return"
    /\ w.result.value.status = "cancelled"
    /\ r.phase = "ended"

\* C19: within one call of waitForCompletion the iterations do not overlap.
\* A status fetch is outstanding exactly while the poller awaits it, so at
\* most one at a time, and every earlier fetch has completed; the poller
\* sleeps only after the preceding fetch has completed with a status that
\* is not terminal, from the instant that fetch completed; and a fetch
\* that follows a sleep starts when the sleep has run for the poll
\* interval or longer.
C19_IterationsDoNotOverlap ==
    /\ (w.pc = "fetching") = InFlight
    /\ w.fetches = Len(w.seen) + (IF w.pc = "fetching" THEN 1 ELSE 0)
    /\ w.sleeps = (IF w.pc = "sleeping" \/ w.exit = "timeout" THEN w.fetches
                   ELSE IF w.fetches = 0 THEN 0 ELSE w.fetches - 1)
    /\ w.pc = "sleeping" =>
           /\ r.phase = "ended"
           /\ r.outcome.kind = "return"
           /\ Last(w.seen) \in {"pending", "processing"}
           /\ w.sleepStart = r.end
    /\ (w.pc = "fetching" /\ w.sleeps >= 1) =>
           /\ r.start - w.sleepStart >= w.pollInterval
    /\ (w.pc = "done" /\ w.exit = "timeout") =>
           /\ w.endTime - w.sleepStart >= w.pollInterval

\* The third status fetch is outstanding: it started when the second sleep
\* had lasted for the poll interval.
C19_Witness ==
    /\ w.pc = "fetching"
    /\ w.fetches = 3
    /\ w.sleeps = 2
    /\ w.seen = <<"pending", "processing">>
    /\ InFlight
    /\ r.start - w.sleepStart = w.pollInterval

\* The poller is in its waiting state.
Waiting == w.pc \in {"fetching", "sleeping"}

\* C18: every call of waitForCompletion eventually ends in one of its three
\* terminal states, whatever the statuses and the outcomes of the fetches,
\* as long as the clock advances and the timers that are due fire; a
\* response that stalls does not keep the poller waiting forever.
C18_PollerTerminates ==
    Waiting ~> (w.pc = "done" /\ w.exit \in {"success", "timeout", "error"})

\* Short of a response whose body stalls after its headers have arrived,
\* the poller does end.
C18_TerminatesUnlessBodyStalls ==
    Waiting ~> (w.pc = "done" \/ r.phase \in {"body", "errbody"})

\* The value in effect for an option: the default when the option is
\* missing or zero.
Effective(x, d) == IF x = None \/ x = Some(0) THEN d ELSE x[1]

\* C20: waitForCompletion runs with the default bound of 300000 ms when
\* maxWait is missing or 0 and with the default interval of 5000 ms when
\* pollInterval is missing or 0, so both are strictly positive; its Timeout
\* is raised after at least one status fetch and its message reports the
\* bound in effect, not the 0 supplied.
C20_ZeroMeansDefault ==
    w.pc # "idle" =>
        /\ w.maxWait = Effective(w.options.maxWait, DEFAULT_MAX_WAIT)
        /\ w.pollInterval = Effective(w.options.pollInterval, DEFAULT_POLL_INTERVAL)
        /\ w.maxWait > 0
        /\ w.pollInterval > 0
        /\ w.fetches >= 1
        /\ w.exit = "timeout" =>
               /\ IsPollTimeout(w.result)
               /\ w.result.error.message.n = w.maxWait
               /\ w.result.error.message.n > 0
               /\ now - w.startTime >= w.maxWait

\* Called with maxWait 0 and pollInterval 0, the poller has made sixty
\* status fetches five seconds apart and raised the Timeout that reports
\* 300 seconds.
C20_Witness ==
    /\ w.options = [maxWait |-> Some(0), pollInterval |-> Some(0)]
    /\ w.exit = "timeout"
    /\ w.result.error.message.n = DEFAULT_MAX_WAIT
    /\ w.fetches * DEFAULT_POLL_INTERVAL = DEFAULT_MAX_WAIT
    /\ now - w.startTime = DEFAULT_MAX_WAIT

====
